---- MODULE Spec2Model ----
(***************************************************************************)
(* Model of advance_pack.py: the manifest loader (ManifestLoader) and the  *)
(* four version-advance callbacks of ModifyManifests.                      *)
(*                                                                         *)
(* JSON objects are functions from key names to values, so that an absent  *)
(* key is a key outside the DOMAIN.  A version value carries the Python    *)
(* type of the value found in the file: a list of integers, a string (its  *)
(* character codes) or None.  A Python exception is the exc field of an    *)
(* operator's result; "none" means the call returned normally.             *)
(***************************************************************************)
EXTENDS Integers, Sequences, FiniteSets, TLC

\* ---------- bounds ----------

\* number of manifest.json files found under the root
MaxFiles == 2
\* an advance button is pressed only while the source pack's low version slots are below this
MaxVer == 2

\* ---------- Python values ----------

\* None held in a str-typed Optional field
None == "None"

VList(s) == [t |-> "list", v |-> s]
VStr(s) == [t |-> "str", v |-> s]
VNone == [t |-> "NoneType", v |-> << >>]

\* the characters of "1.0.0" and "2.0.0"
Str100 == <<49, 46, 48, 46, 48>>
Str200 == <<50, 46, 48, 46, 48>>

\* dict.get(key, default)
Get(d, k, default) == IF k \in DOMAIN d THEN d[k] ELSE default

Ok(val) == [exc |-> "none", val |-> val]
Raise(e) == [exc |-> e, val |-> << >>]

\* ---------- Loader ----------

\* load_header with header.get("min_engine_version", [1, 0, 0])
load_header_default_engine(header) ==
    IF "name" \notin DOMAIN header \/ "uuid" \notin DOMAIN header
       \/ "version" \notin DOMAIN header
    THEN Raise("KeyError")
    ELSE Ok([name |-> header["name"],
             description |-> Get(header, "description", ""),
             uuid |-> header["uuid"],
             version |-> header["version"],
             min_engine_version |->
                 Get(header, "min_engine_version", VList(<<1, 0, 0>>))])

load_header(header) ==
    IF "name" \notin DOMAIN header \/ "uuid" \notin DOMAIN header
       \/ "version" \notin DOMAIN header
    THEN Raise("KeyError")
    ELSE Ok([name |-> header["name"],
             description |-> Get(header, "description", ""),
             uuid |-> header["uuid"],
             version |-> header["version"],
             min_engine_version |-> Get(header, "min_engine_version", VNone)])

RECURSIVE load_dependencies(_, _)
\* the loop of _load_dependencies from entry i on
load_dependencies(dependencies, i) ==
    IF i > Len(dependencies) THEN Ok(<< >>)
    ELSE LET dep == dependencies[i] IN
         IF "version" \notin DOMAIN dep THEN Raise("KeyError")
         ELSE LET rest == load_dependencies(dependencies, i + 1) IN
              IF rest.exc # "none" THEN rest
              ELSE Ok(<<[version |-> dep["version"],
                         uuid |-> Get(dep, "uuid", None),
                         module_name |-> Get(dep, "module_name", None)]>>
                      \o rest.val)

\* one module of a manifest, as the pack kind given by its module types keeps it
load_module(module, types) ==
    IF "type" \notin DOMAIN module THEN Raise("KeyError")
    ELSE IF module["type"] \notin types THEN Ok(<< >>)
    ELSE IF "uuid" \notin DOMAIN module \/ "version" \notin DOMAIN module
    THEN Raise("KeyError")
    ELSE IF module["type"] = "script"
    THEN Ok(<<[type |-> "script",
               uuid |-> module["uuid"],
               version |-> module["version"],
               description |-> Get(module, "description", None),
               language |-> Get(module, "language", "javascript"),
               entry |-> Get(module, "entry", None)]>>)
    ELSE Ok(<<[type |-> module["type"],
               uuid |-> module["uuid"],
               version |-> module["version"],
               description |-> Get(module, "description", None)]>>)

RECURSIVE load_modules(_, _, _)
load_modules(modules, i, types) ==
    IF i > Len(modules) THEN Ok(<< >>)
    ELSE LET m == load_module(modules[i], types) IN
         IF m.exc # "none" THEN m
         ELSE LET rest == load_modules(modules, i + 1, types) IN
              IF rest.exc # "none" THEN rest ELSE Ok(m.val \o rest.val)

\* the body shared by _load_behavior and _load_resource
load_pack(data, types) ==
    IF "header" \notin DOMAIN data THEN Raise("KeyError")
    ELSE LET header == load_header(data["header"]) IN
         IF header.exc # "none" THEN header
         ELSE LET modules == load_modules(Get(data, "modules", << >>), 1, types) IN
              IF modules.exc # "none" THEN modules
              ELSE LET deps == IF "dependencies" \in DOMAIN data
                               THEN load_dependencies(data["dependencies"], 1)
                               ELSE Ok(<< >>) IN
                   IF deps.exc # "none" THEN deps
                   ELSE Ok([format_version |-> Get(data, "format_version", 2),
                            header |-> header.val,
                            modules |-> modules.val,
                            dependencies |-> IF "dependencies" \in DOMAIN data
                                             THEN <<deps.val>> ELSE << >>,
                            metadata |-> Get(data, "metadata", None)])

load_behavior(data) == load_pack(data, {"data", "script"})

load_resource(data) == load_pack(data, {"resources", "client_data"})

RECURSIVE load_manifest_first_wins(_, _, _)
\* load_manifest_loop that leaves a slot alone once it is set
load_manifest_first_wins(self, data, i) ==
    LET modules == Get(data, "modules", << >>) IN
    IF i > Len(modules) THEN [exc |-> "none", self |-> self]
    ELSE LET type == Get(modules[i], "type", None) IN
         IF type = "data"
         THEN LET r == load_behavior(data) IN
              IF r.exc # "none" THEN [exc |-> r.exc, self |-> self]
              ELSE IF self.behavior_pack # << >> THEN [exc |-> "none", self |-> self]
              ELSE [exc |-> "none", self |-> [self EXCEPT !.behavior_pack = <<r.val>>]]
         ELSE IF type \in {"resources", "client_data"}
         THEN LET r == load_resource(data) IN
              IF r.exc # "none" THEN [exc |-> r.exc, self |-> self]
              ELSE IF self.resource_pack # << >> THEN [exc |-> "none", self |-> self]
              ELSE [exc |-> "none", self |-> [self EXCEPT !.resource_pack = <<r.val>>]]
         ELSE load_manifest_first_wins(self, data, i + 1)

\* load_manifest_loop that looks for a "data" module anywhere in the array
\* before it looks for a "resources" or "client_data" module
load_manifest_any_data(self, data, i) ==
    LET modules == Get(data, "modules", << >>)
        types == {Get(modules[j], "type", None) : j \in DOMAIN modules} IN
    IF "data" \in types
    THEN LET r == load_behavior(data) IN
         IF r.exc # "none" THEN [exc |-> r.exc, self |-> self]
         ELSE [exc |-> "none", self |-> [self EXCEPT !.behavior_pack = <<r.val>>]]
    ELSE IF types \cap {"resources", "client_data"} # {}
    THEN LET r == load_resource(data) IN
         IF r.exc # "none" THEN [exc |-> r.exc, self |-> self]
         ELSE [exc |-> "none", self |-> [self EXCEPT !.resource_pack = <<r.val>>]]
    ELSE [exc |-> "none", self |-> self]

RECURSIVE load_manifest_loop(_, _, _)
\* the for loop of _load_manifest from module i on; self is the loader's two slots
load_manifest_loop(self, data, i) ==
    LET modules == Get(data, "modules", << >>) IN
    IF i > Len(modules) THEN [exc |-> "none", self |-> self]
    ELSE LET type == Get(modules[i], "type", None) IN
         IF type = "data"
         THEN LET r == load_behavior(data) IN
              IF r.exc # "none" THEN [exc |-> r.exc, self |-> self]
              ELSE [exc |-> "none", self |-> [self EXCEPT !.behavior_pack = <<r.val>>]]
         ELSE IF type \in {"resources", "client_data"}
         THEN LET r == load_resource(data) IN
              IF r.exc # "none" THEN [exc |-> r.exc, self |-> self]
              ELSE [exc |-> "none", self |-> [self EXCEPT !.resource_pack = <<r.val>>]]
         ELSE load_manifest_loop(self, data, i + 1)

load_manifest(self, file) ==
    IF ~file.text_ok THEN [exc |-> "JSONDecodeError", self |-> self]
    ELSE load_manifest_loop(self, file.data, 1)

\* an except clause that names KeyError only
CatchesKeyError(e) == e = "KeyError"

\* the except clause of scan: every exception a load raises is an Exception
Catches(e) == e \in {"JSONDecodeError", "KeyError", "TypeError", "AttributeError"}

\* ---------- manifest files the scan may meet ----------

V100 == VList(<<1, 0, 0>>)
V101 == VList(<<1, 0, 1>>)
V200 == VList(<<2, 0, 0>>)

Hdr(name, uuid, version) == [name |-> name, uuid |-> uuid, version |-> version]
Mod(type, uuid, version) == [type |-> type, uuid |-> uuid, version |-> version]
Json(data) == [text_ok |-> TRUE, data |-> data]

\* resource pack A, no optional key
RpPlain ==
    Json([header |-> Hdr("rp1", "A", V100),
          modules |-> <<Mod("resources", "A", V100)>>])
\* resource pack A with every optional key, a module of another uuid and
\* dependencies on behavior pack B
RpFull ==
    Json([format_version |-> 2,
          header |-> [name |-> "rp2", description |-> "d", uuid |-> "A",
                      version |-> V101, min_engine_version |-> VList(<<1, 16, 0>>)],
          modules |-> <<[type |-> "resources", uuid |-> "A", version |-> V101,
                         description |-> "m"],
                        Mod("client_data", "C", VList(<<0, 1, 0>>))>>,
          dependencies |-> <<[uuid |-> "B", version |-> V200],
                             [uuid |-> "B", version |-> VStr(Str200)],
                             [uuid |-> "C", version |-> V100]>>,
          metadata |-> "meta"])
\* header version of two integers
RpShort ==
    Json([header |-> Hdr("rp3", "A", VList(<<1, 0>>)),
          modules |-> <<Mod("resources", "A", V100)>>])
\* header version given as a string
RpStrVersion ==
    Json([header |-> Hdr("rp4", "A", VStr(Str100)),
          modules |-> <<Mod("resources", "A", V100)>>])
\* behavior pack B depending on resource pack A
BpDeps ==
    Json([header |-> Hdr("bp1", "B", V200),
          modules |-> <<Mod("data", "B", V200)>>,
          dependencies |-> <<[uuid |-> "A", version |-> V100],
                             [uuid |-> "A", version |-> VStr(Str100)],
                             [version |-> V100],
                             [module_name |-> "C", uuid |-> "C", version |-> V100]>>])
\* behavior pack B whose first module is a script, no dependencies key
BpScript ==
    Json([header |-> Hdr("bp2", "B", V200),
          modules |-> <<Mod("script", "B", V200), Mod("data", "B", V200)>>,
          dependencies |-> << >>])
\* a resources module before a data module, and the other way round
MixedResourceFirst ==
    Json([header |-> Hdr("mix1", "A", V100),
          modules |-> <<Mod("resources", "A", V100), Mod("data", "A", V100)>>])
MixedDataFirst ==
    Json([header |-> Hdr("mix2", "B", V200),
          modules |-> <<Mod("data", "B", V200), [type |-> "resources"]>>])
\* no pack-defining module
ScriptOnly ==
    Json([header |-> Hdr("s", "B", V200),
          modules |-> <<Mod("script", "B", V200), [uuid |-> "B"]>>])
NoModules == Json([header |-> Hdr("n", "A", V100)])
\* files whose loading fails
BadJson == [text_ok |-> FALSE, data |-> << >>]
NoHeader == Json([modules |-> <<Mod("resources", "A", V100)>>])
NoUuid ==
    Json([header |-> [name |-> "x", version |-> V200],
          modules |-> <<Mod("data", "B", V200)>>])
ModuleNoVersion ==
    Json([header |-> Hdr("y", "A", V100),
          modules |-> <<[type |-> "resources", uuid |-> "A"]>>])
DependencyNoVersion ==
    Json([header |-> Hdr("z", "B", V200),
          modules |-> <<Mod("data", "B", V200)>>,
          dependencies |-> <<[uuid |-> "A"]>>])

Manifests ==
    {RpPlain, RpFull, RpShort, RpStrVersion, BpDeps, BpScript,
     MixedResourceFirst, MixedDataFirst, ScriptOnly, NoModules,
     BadJson, NoHeader, NoUuid, ModuleNoVersion, DependencyNoVersion}

RECURSIVE SeqsUpTo(_, _)
SeqsUpTo(S, n) ==
    IF n = 0 THEN {<< >>}
    ELSE LET shorter == SeqsUpTo(S, n - 1) IN
         shorter \cup {Append(s, x) : s \in shorter, x \in S}

\* ---------- state ----------

VARIABLES
    files,          \* the manifest.json files under the root, in rglob order
    idx,            \* position of scan's for loop
    behavior_pack,  \* ManifestLoader.behavior_pack: << >> is None, <<p>> a pack
    resource_pack,  \* ManifestLoader.resource_pack
    pc,             \* "scan", "loaded" (scan returned), "modify" (window open), "crashed"
    message,        \* text of the error box of open_modify
    last,           \* the button callback that ran last
    raised          \* the exception it raised, "none" if it returned

vars == <<files, idx, behavior_pack, resource_pack, pc, message, last, raised>>

Init ==
    /\ files \in SeqsUpTo(Manifests, MaxFiles)
    /\ idx = 1
    /\ behavior_pack = << >>
    /\ resource_pack = << >>
    /\ pc = "scan"
    /\ message = ""
    /\ last = "none"
    /\ raised = "none"

\* one iteration of the for loop of scan
ScanStep ==
    /\ pc = "scan"
    /\ idx <= Len(files)
    /\ LET r == load_manifest([behavior_pack |-> behavior_pack,
                               resource_pack |-> resource_pack], files[idx]) IN
       IF r.exc # "none" /\ ~Catches(r.exc)
       THEN /\ pc' = "crashed"
            /\ raised' = r.exc
            /\ UNCHANGED <<idx, behavior_pack, resource_pack>>
       ELSE /\ behavior_pack' = r.self.behavior_pack
            /\ resource_pack' = r.self.resource_pack
            /\ idx' = idx + 1
            /\ UNCHANGED <<pc, raised>>
    /\ UNCHANGED <<files, message, last>>

\* the for loop of scan is exhausted: select_folder shows the Modify button
ScanReturn ==
    /\ pc = "scan"
    /\ idx > Len(files)
    /\ pc' = "loaded"
    /\ UNCHANGED <<files, idx, behavior_pack, resource_pack, message, last, raised>>

open_modify ==
    /\ pc = "loaded"
    /\ IF resource_pack = << >> /\ behavior_pack = << >>
       THEN /\ message # "No Resource pack or Behavior pack loaded."
            /\ message' = "No Resource pack or Behavior pack loaded."
            /\ pc' = pc
       ELSE /\ pc' = "modify"
            /\ message' = message
    /\ UNCHANGED <<files, idx, behavior_pack, resource_pack, last, raised>>


\* ---------- Advancer ----------

\* type(x), by class name
type(x) == x.t

\* x[i] += 1, i counted from 0; val is x after the statement, also when it raises
IncAt(x, i) ==
    IF x.t = "NoneType" THEN [exc |-> "TypeError", val |-> x]
    ELSE IF i >= Len(x.v) THEN [exc |-> "IndexError", val |-> x]
    ELSE IF x.t = "str" THEN [exc |-> "TypeError", val |-> x]
    ELSE [exc |-> "none", val |-> [x EXCEPT !.v[i + 1] = @ + 1]]

\* x[i] = n
SetAt(x, i, n) ==
    IF x.t # "list" THEN [exc |-> "TypeError", val |-> x]
    ELSE IF i >= Len(x.v) THEN [exc |-> "IndexError", val |-> x]
    ELSE [exc |-> "none", val |-> [x EXCEPT !.v[i + 1] = n]]

\* header.version[2] += 1
header_minor(version) == IncAt(version, 2)

\* header.version[1] += 1; header.version[2] = 0
header_major(version) ==
    LET a == IncAt(version, 1) IN
    IF a.exc # "none" THEN a ELSE SetAt(a.val, 2, 0)

\* the body of the minor callbacks' loop over the source pack's modules
module_minor(module, uuid) ==
    IF module.uuid = uuid
    THEN LET a == IncAt(module.version, 1) IN
         [exc |-> a.exc, val |-> [module EXCEPT !.version = a.val]]
    ELSE [exc |-> "none", val |-> module]

\* module_major that bumps index 0, the major slot of semantic versioning
module_major_index0(module, uuid) ==
    IF module.uuid = uuid
    THEN LET a == IncAt(module.version, 0)
             b == IF a.exc # "none" THEN a ELSE SetAt(a.val, 2, 0) IN
         [exc |-> b.exc, val |-> [module EXCEPT !.version = b.val]]
    ELSE [exc |-> "none", val |-> module]

\* module_major without the test of the module's uuid
module_major_every_module(module, uuid) ==
    LET a == IncAt(module.version, 1)
        b == IF a.exc # "none" THEN a ELSE SetAt(a.val, 2, 0) IN
    [exc |-> b.exc, val |-> [module EXCEPT !.version = b.val]]

\* the body of the major callbacks' loop over the source pack's modules
module_major(module, uuid) ==
    IF module.uuid = uuid
    THEN LET a == IncAt(module.version, 1)
             b == IF a.exc # "none" THEN a ELSE SetAt(a.val, 2, 0) IN
         [exc |-> b.exc, val |-> [module EXCEPT !.version = b.val]]
    ELSE [exc |-> "none", val |-> module]

\* the body of the minor callbacks' loop over the other pack's dependencies
dependency_minor(dependency, uuid) ==
    IF dependency.uuid = uuid /\ type(dependency.version) = "list[str]"
    THEN LET a == IncAt(dependency.version, 2) IN
         [exc |-> a.exc, val |-> [dependency EXCEPT !.version = a.val]]
    ELSE [exc |-> "none", val |-> dependency]

\* dependency_major that treats a string version like a list: it adds 1 to
\* the character at index 2
dependency_major_any_shape(dependency, uuid) ==
    IF dependency.uuid = uuid /\ Len(dependency.version.v) > 2
    THEN [exc |-> "none",
          val |-> [dependency EXCEPT !.version.v[3] = @ + 1]]
    ELSE [exc |-> "none", val |-> dependency]

\* the body of the major callbacks' loop over the other pack's dependencies
dependency_major(dependency, uuid) ==
    IF dependency.uuid = uuid /\ type(dependency.version) = "list[str]"
    THEN LET a == IncAt(dependency.version, 1)
             b == IF a.exc # "none" THEN a ELSE SetAt(a.val, 2, 0) IN
         [exc |-> b.exc, val |-> [dependency EXCEPT !.version = b.val]]
    ELSE [exc |-> "none", val |-> dependency]

LoopBody(level, what, item, uuid) ==
    IF what = "module"
    THEN IF level = "minor" THEN module_minor(item, uuid) ELSE module_major(item, uuid)
    ELSE IF level = "minor" THEN dependency_minor(item, uuid)
         ELSE dependency_major(item, uuid)

RECURSIVE for_each(_, _, _, _, _)
\* a for loop of a callback from item i on; it stops at the first exception
for_each(items, i, level, what, uuid) ==
    IF i > Len(items) THEN [exc |-> "none", val |-> items]
    ELSE LET r == LoopBody(level, what, items[i], uuid)
             done == [items EXCEPT ![i] = r.val] IN
         IF r.exc # "none" THEN [exc |-> r.exc, val |-> done]
         ELSE for_each(done, i + 1, level, what, uuid)

\* "not pack.dependencies": None and the empty list are both false
NoDependencies(pack) == pack.dependencies = << >> \/ pack.dependencies[1] = << >>

\* the code the four callbacks share: source is the pack advanced, target the other
advance(source, target, level) ==
    IF source = << >> THEN [exc |-> "none", source |-> source, target |-> target]
    ELSE LET uuid == source[1].header.uuid
             h == IF level = "minor" THEN header_minor(source[1].header.version)
                  ELSE header_major(source[1].header.version)
             s1 == [source[1] EXCEPT !.header.version = h.val] IN
         IF h.exc # "none" THEN [exc |-> h.exc, source |-> <<s1>>, target |-> target]
         ELSE LET m == for_each(s1.modules, 1, level, "module", uuid)
                  s2 == [s1 EXCEPT !.modules = m.val] IN
              IF m.exc # "none"
              THEN [exc |-> m.exc, source |-> <<s2>>, target |-> target]
              ELSE IF target = << >>
              THEN [exc |-> "none", source |-> <<s2>>, target |-> target]
              ELSE IF NoDependencies(target[1]) \/ NoDependencies(s2)
              THEN [exc |-> "none", source |-> <<s2>>, target |-> target]
              ELSE LET d == for_each(target[1].dependencies[1], 1, level,
                                     "dependency", uuid) IN
                   [exc |-> d.exc, source |-> <<s2>>,
                    target |-> <<[target[1] EXCEPT !.dependencies = <<d.val>>]>>]

advance_resource_pack_minor(rp, bp) ==
    LET r == advance(rp, bp, "minor") IN [exc |-> r.exc, rp |-> r.source, bp |-> r.target]

advance_resource_pack_major(rp, bp) ==
    LET r == advance(rp, bp, "major") IN [exc |-> r.exc, rp |-> r.source, bp |-> r.target]

advance_behavior_pack_minor(rp, bp) ==
    LET r == advance(bp, rp, "minor") IN [exc |-> r.exc, rp |-> r.target, bp |-> r.source]

advance_behavior_pack_major(rp, bp) ==
    LET r == advance(bp, rp, "major") IN [exc |-> r.exc, rp |-> r.target, bp |-> r.source]

\* the integers of a version that an advance can raise: those after index 0
LowSlotsBelowMax(version) ==
    version.t = "list" =>
        \A i \in DOMAIN version.v : i > 1 => version.v[i] < MaxVer

\* a button is pressed while the low slots of the source pack's header and
\* modules are below MaxVer
BelowMax(pack) ==
    /\ LowSlotsBelowMax(pack[1].header.version)
    /\ \A j \in DOMAIN pack[1].modules : LowSlotsBelowMax(pack[1].modules[j].version)

Callback(name, r) ==
    /\ resource_pack' = r.rp
    /\ behavior_pack' = r.bp
    /\ last' = name
    /\ raised' = r.exc
    /\ UNCHANGED <<files, idx, pc, message>>

\* rp_advance_minor_button
AdvanceResourceMinor ==
    /\ pc = "modify"
    /\ resource_pack # << >>
    /\ BelowMax(resource_pack)
    /\ Callback("rp_minor", advance_resource_pack_minor(resource_pack, behavior_pack))

\* rp_advance_major_button
AdvanceResourceMajor ==
    /\ pc = "modify"
    /\ resource_pack # << >>
    /\ BelowMax(resource_pack)
    /\ Callback("rp_major", advance_resource_pack_major(resource_pack, behavior_pack))

\* bp_advance_minor_button
AdvanceBehaviorMinor ==
    /\ pc = "modify"
    /\ behavior_pack # << >>
    /\ BelowMax(behavior_pack)
    /\ Callback("bp_minor", advance_behavior_pack_minor(resource_pack, behavior_pack))

\* bp_advance_major_button
AdvanceBehaviorMajor ==
    /\ pc = "modify"
    /\ behavior_pack # << >>
    /\ BelowMax(behavior_pack)
    /\ Callback("bp_major", advance_behavior_pack_major(resource_pack, behavior_pack))

Next ==
    \/ ScanStep
    \/ ScanReturn
    \/ open_modify
    \/ AdvanceResourceMinor
    \/ AdvanceResourceMajor
    \/ AdvanceBehaviorMinor
    \/ AdvanceBehaviorMajor

Spec == Init /\ [][Next]_vars


\* ---------- properties of the Advancer ----------

IsTriple(x) == x.t = "list" /\ Len(x.v) = 3

\* the header version and the versions of the modules of the header's uuid
TouchedAreTriples(pack) ==
    /\ IsTriple(pack.header.version)
    /\ \A j \in DOMAIN pack.modules :
           pack.modules[j].uuid = pack.header.uuid => IsTriple(pack.modules[j].version)

MinorOf(old, new) ==
    /\ new.t = "list"
    /\ new.v = [old.v EXCEPT ![3] = @ + 1]

MajorOf(old, new) ==
    /\ new.t = "list"
    /\ new.v = [old.v EXCEPT ![2] = @ + 1, ![3] = 0]

TouchedBy(Transform(_, _), old, new) ==
    /\ Transform(old.header.version, new.header.version)
    /\ Len(new.modules) = Len(old.modules)
    /\ \A j \in DOMAIN old.modules :
           old.modules[j].uuid = old.header.uuid
               => Transform(old.modules[j].version, new.modules[j].version)

\* C1: a Minor advance of a pack of integer triples with no target pack adds 1
\* to index 2 of the header version and of the version of every module of the
\* header's uuid, and keeps their indices 0 and 1.
C1_MinorTouchesOnlyIndex2 ==
    [][/\ (AdvanceResourceMinor /\ behavior_pack = << >>
              /\ TouchedAreTriples(resource_pack[1]))
           => TouchedBy(MinorOf, resource_pack[1], resource_pack'[1])
       /\ (AdvanceBehaviorMinor /\ resource_pack = << >>
              /\ TouchedAreTriples(behavior_pack[1]))
           => TouchedBy(MinorOf, behavior_pack[1], behavior_pack'[1])]_vars

\* C2: a Major advance of a pack of integer triples with no target pack adds 1
\* to index 1, sets index 2 to 0 and keeps index 0 of the header version and of
\* the version of every module of the header's uuid.
C2_MajorBumpsIndex1ResetsIndex2 ==
    [][/\ (AdvanceResourceMajor /\ behavior_pack = << >>
              /\ TouchedAreTriples(resource_pack[1]))
           => TouchedBy(MajorOf, resource_pack[1], resource_pack'[1])
       /\ (AdvanceBehaviorMajor /\ resource_pack = << >>
              /\ TouchedAreTriples(behavior_pack[1]))
           => TouchedBy(MajorOf, behavior_pack[1], behavior_pack'[1])]_vars

\* a Major advance of the lone resource pack [1,0,1] has produced [1,1,0] on
\* its header and on its module of the header's uuid
C2_Witness ==
    /\ last = "rp_major"
    /\ raised = "none"
    /\ behavior_pack = << >>
    /\ resource_pack # << >>
    /\ files[1] = RpFull
    /\ resource_pack[1].header.version = VList(<<1, 1, 0>>)
    /\ \E j \in DOMAIN resource_pack[1].modules :
           /\ resource_pack[1].modules[j].uuid = resource_pack[1].header.uuid
           /\ resource_pack[1].modules[j].version = VList(<<1, 1, 0>>)

IsPinned(dependency) == IsTriple(dependency.version)

\* the dependencies list of a pack, empty when the pack has none
DependenciesOf(pack) ==
    IF pack.dependencies = << >> THEN << >> ELSE pack.dependencies[1]

Propagated(Transform(_, _), source, target, target2) ==
    /\ Len(DependenciesOf(target2)) = Len(DependenciesOf(target))
    /\ \A j \in DOMAIN DependenciesOf(target) :
           (DependenciesOf(target)[j].uuid = source.header.uuid
                /\ IsPinned(DependenciesOf(target)[j]))
               => Transform(DependenciesOf(target)[j].version,
                            DependenciesOf(target2)[j].version)

\* C3: advancing a pack of integer triples with the other pack as target
\* applies the header's transform to every pinned dependency of the target
\* on the source's uuid: [1,0,0] becomes [1,0,1] (Minor) or [1,1,0] (Major).
C3_Propagation ==
    [][/\ (AdvanceResourceMinor /\ behavior_pack # << >>
              /\ TouchedAreTriples(resource_pack[1]))
           => Propagated(MinorOf, resource_pack[1], behavior_pack[1], behavior_pack'[1])
       /\ (AdvanceResourceMajor /\ behavior_pack # << >>
              /\ TouchedAreTriples(resource_pack[1]))
           => Propagated(MajorOf, resource_pack[1], behavior_pack[1], behavior_pack'[1])
       /\ (AdvanceBehaviorMinor /\ resource_pack # << >>
              /\ TouchedAreTriples(behavior_pack[1]))
           => Propagated(MinorOf, behavior_pack[1], resource_pack[1], resource_pack'[1])
       /\ (AdvanceBehaviorMajor /\ resource_pack # << >>
              /\ TouchedAreTriples(behavior_pack[1]))
           => Propagated(MajorOf, behavior_pack[1], resource_pack[1], resource_pack'[1])]_vars

AnyAdvance ==
    \/ AdvanceResourceMinor
    \/ AdvanceResourceMajor
    \/ AdvanceBehaviorMinor
    \/ AdvanceBehaviorMajor

StringVersionsKept(slot, slot2) ==
    slot # << >> =>
        /\ slot2 # << >>
        /\ Len(DependenciesOf(slot2[1])) = Len(DependenciesOf(slot[1]))
        /\ \A j \in DOMAIN DependenciesOf(slot[1]) :
               DependenciesOf(slot[1])[j].version.t = "str"
                   => DependenciesOf(slot2[1])[j].version
                          = DependenciesOf(slot[1])[j].version

\* C4: no advance, Minor or Major, of either pack, with or without a target,
\* changes the version of a dependency of either pack that is a string.
C4_StringVersionsImmutable ==
    [][AnyAdvance => /\ StringVersionsKept(resource_pack, resource_pack')
                     /\ StringVersionsKept(behavior_pack, behavior_pack')]_vars

\* the resource pack, which has dependencies, was advanced with a behavior
\* pack as target that depends on it by a string version
C4_Witness ==
    /\ last \in {"rp_minor", "rp_major"}
    /\ raised = "none"
    /\ resource_pack # << >>
    /\ behavior_pack # << >>
    /\ ~NoDependencies(resource_pack[1])
    /\ \E j \in DOMAIN DependenciesOf(behavior_pack[1]) :
           /\ DependenciesOf(behavior_pack[1])[j].uuid = resource_pack[1].header.uuid
           /\ DependenciesOf(behavior_pack[1])[j].version = VStr(Str100)

OtherDependenciesKept(uuid, pack, pack2) ==
    /\ Len(DependenciesOf(pack2)) = Len(DependenciesOf(pack))
    /\ (pack2.dependencies = << >>) = (pack.dependencies = << >>)
    /\ \A j \in DOMAIN DependenciesOf(pack) :
           DependenciesOf(pack)[j].uuid # uuid
               => DependenciesOf(pack2)[j] = DependenciesOf(pack)[j]

Frame(source, source2, target, target2) ==
    /\ target2.header = target.header
    /\ target2.modules = target.modules
    /\ Len(source2.modules) = Len(source.modules)
    /\ \A j \in DOMAIN source.modules :
           source.modules[j].uuid # source.header.uuid
               => source2.modules[j] = source.modules[j]
    /\ OtherDependenciesKept(source.header.uuid, source, source2)
    /\ OtherDependenciesKept(source.header.uuid, target, target2)

\* C5: an advance of one pack with the other as target keeps the target's
\* header and modules, the source's modules of another uuid than the source
\* header's, and the dependencies of both packs on another uuid.
C5_Frame ==
    [][/\ ((AdvanceResourceMinor \/ AdvanceResourceMajor) /\ behavior_pack # << >>)
           => Frame(resource_pack[1], resource_pack'[1],
                    behavior_pack[1], behavior_pack'[1])
       /\ ((AdvanceBehaviorMinor \/ AdvanceBehaviorMajor) /\ resource_pack # << >>)
           => Frame(behavior_pack[1], behavior_pack'[1],
                    resource_pack[1], resource_pack'[1])]_vars

\* resource pack A, with a module of uuid C and a dependency on C, went through
\* a Major advance with behavior pack B as target; B's header and module are
\* still [2,0,0]
C5_Witness ==
    /\ last = "rp_major"
    /\ raised = "none"
    /\ files = <<RpFull, BpDeps>>
    /\ resource_pack[1].header.version = VList(<<1, 1, 0>>)
    /\ behavior_pack[1].header.version = V200
    /\ behavior_pack[1].modules[1].version = V200
    /\ resource_pack[1].modules[2].uuid = "C"

\* C10: no button callback raises an exception.
C10_NoFailurePath == raised = "none"


\* ---------- properties of the Loader ----------

EmptyLoader == [behavior_pack |-> << >>, resource_pack |-> << >>]

Slots == {"behavior_pack", "resource_pack"}

Held(slot) == IF slot = "behavior_pack" THEN behavior_pack ELSE resource_pack

\* the file, met by a loader that holds nothing, loads into the slot
LoadsAs(file, slot) ==
    LET r == load_manifest(EmptyLoader, file) IN
    r.exc = "none" /\ r.self[slot] # << >>

LoadersOf(slot) == {i \in DOMAIN files : LoadsAs(files[i], slot)}

Least(S) == CHOOSE i \in S : \A j \in S : i <= j
Greatest(S) == CHOOSE i \in S : \A j \in S : i >= j

HoldsFileAt(slot, i) == Held(slot) = load_manifest(EmptyLoader, files[i]).self[slot]

\* C6 as stated: when scan returns, each slot holds the first file, in
\* traversal order, that loads successfully as that kind.
C6_FirstWins ==
    pc = "loaded" =>
        \A slot \in Slots :
            IF LoadersOf(slot) = {} THEN Held(slot) = << >>
            ELSE HoldsFileAt(slot, Least(LoadersOf(slot)))

\* C6 amended: when scan returns, each slot holds the last file, in traversal
\* order, that loads successfully as that kind; every later manifest of a
\* kind replaces the earlier one.
C6_LastWins ==
    pc = "loaded" =>
        \A slot \in Slots :
            IF LoadersOf(slot) = {} THEN Held(slot) = << >>
            ELSE HoldsFileAt(slot, Greatest(LoadersOf(slot)))

\* scan has returned after meeting two different resource manifests
C6_Witness ==
    /\ pc = "loaded"
    /\ Len(files) >= 2
    /\ files[1] = RpPlain
    /\ files[2] = RpFull
    /\ resource_pack # << >>
    /\ resource_pack[1].header.name = "rp2"

Loader == [behavior_pack |-> behavior_pack, resource_pack |-> resource_pack]

\* C7: visiting a file whose loading fails lets no exception out of scan,
\* keeps both slots and moves scan on to the next file.
C7_FailedLoadIsSkipped ==
    [][(pc = "scan" /\ idx <= Len(files)
            /\ load_manifest(Loader, files[idx]).exc # "none")
           => /\ pc' = "scan"
              /\ raised' = "none"
              /\ idx' = idx + 1
              /\ behavior_pack' = behavior_pack
              /\ resource_pack' = resource_pack]_vars

\* scan has returned after a file that failed to load (malformed JSON or a
\* missing required field) kept the pack loaded before it, or was followed by
\* a file that was loaded
C7_Witness ==
    /\ pc = "loaded"
    /\ Len(files) = 2
    /\ \/ /\ files[1] = RpPlain
          /\ files[2] \in {BadJson, NoHeader, ModuleNoVersion}
          /\ resource_pack = load_manifest(EmptyLoader, RpPlain).self.resource_pack
          /\ behavior_pack = << >>
       \/ /\ files[1] \in {BadJson, NoUuid, DependencyNoVersion}
          /\ files[2] = BpDeps
          /\ behavior_pack # << >>
          /\ resource_pack = << >>

PackDefining == {"data", "resources", "client_data"}

\* the type of the first pack-defining module of a manifest, "none" without one
FirstDefining(data) ==
    LET modules == Get(data, "modules", << >>)
        defining == {i \in DOMAIN modules :
                        Get(modules[i], "type", None) \in PackDefining} IN
    IF defining = {} THEN "none" ELSE modules[Least(defining)]["type"]

\* C8: a manifest is adopted according to its first pack-defining module:
\* "data" makes it the behavior pack, "resources" or "client_data" the
\* resource pack, none leaves both slots alone; it never fills both slots.
C8_ClassifiedByFirstDefiningModule ==
    [][(pc = "scan" /\ idx <= Len(files) /\ files[idx].text_ok)
           => LET data == files[idx].data
                  first == FirstDefining(data) IN
              /\ (first = "data" /\ load_behavior(data).exc = "none")
                     => /\ behavior_pack' = <<load_behavior(data).val>>
                        /\ resource_pack' = resource_pack
              /\ (first \in {"resources", "client_data"}
                      /\ load_resource(data).exc = "none")
                     => /\ resource_pack' = <<load_resource(data).val>>
                        /\ behavior_pack' = behavior_pack
              /\ first = "none"
                     => /\ behavior_pack' = behavior_pack
                        /\ resource_pack' = resource_pack]_vars

\* scan has adopted as the resource pack only a manifest whose resources module
\* precedes a data module, and has adopted a manifest of script modules as neither
C8_Witness ==
    /\ pc = "loaded"
    /\ files = <<MixedResourceFirst, ScriptOnly>>
    /\ resource_pack # << >>
    /\ resource_pack[1].header.name = "mix1"
    /\ behavior_pack = << >>

\* ---------- Serializer ----------

write_header(header) ==
    [k \in {"name", "description", "uuid", "version"}
           \cup (IF header.min_engine_version = VNone THEN {}
                 ELSE {"min_engine_version"})
       |-> header[k]]

write_module(module) ==
    [k \in {"type", "uuid", "version"}
           \cup (IF module.description = None THEN {} ELSE {"description"})
           \cup (IF module.type = "script" THEN {"language"} ELSE {})
           \cup (IF module.type = "script" /\ module["entry"] # None
                 THEN {"entry"} ELSE {})
       |-> module[k]]

write_dependency(dependency) ==
    [k \in {"version"}
           \cup (IF dependency.uuid = None THEN {} ELSE {"uuid"})
           \cup (IF dependency.module_name = None THEN {} ELSE {"module_name"})
       |-> dependency[k]]

\* the JSON object written for a pack
write(pack) ==
    [k \in {"format_version", "header", "modules"}
           \cup (IF NoDependencies(pack) THEN {} ELSE {"dependencies"})
           \cup (IF pack.metadata = None THEN {} ELSE {"metadata"})
       |-> CASE k = "header" -> write_header(pack.header)
             [] k = "modules" ->
                    [j \in DOMAIN pack.modules |-> write_module(pack.modules[j])]
             [] k = "dependencies" ->
                    [j \in DOMAIN pack.dependencies[1]
                        |-> write_dependency(pack.dependencies[1][j])]
             [] OTHER -> pack[k]]

\* ---------- round trip of absent keys ----------

\* keys absent from the object read are absent from the object written
Omitted(keys, read, written) ==
    \A k \in keys : k \notin DOMAIN read => k \notin DOMAIN written

\* the modules of a manifest that a pack of the given module types keeps
Kept(data, types) ==
    SelectSeq(Get(data, "modules", << >>), LAMBDA m : m["type"] \in types)

AbsentKeysOmitted(packKeys, headerKeys, moduleKeys, data, types, pack) ==
    LET written == write(pack) IN
    /\ Omitted(packKeys, data, written)
    /\ Omitted(headerKeys, data["header"], written["header"])
    /\ Len(written["modules"]) = Len(Kept(data, types))
    /\ \A j \in DOMAIN written["modules"] :
           Omitted(moduleKeys, Kept(data, types)[j], written["modules"][j])
    /\ "dependencies" \in DOMAIN written =>
           \A j \in DOMAIN written["dependencies"] :
               Omitted({"uuid", "module_name"}, data["dependencies"][j],
                       written["dependencies"][j])

Adoption(packKeys, headerKeys, moduleKeys) ==
    (pc = "scan" /\ idx <= Len(files)) =>
        /\ resource_pack' # resource_pack
               => AbsentKeysOmitted(packKeys, headerKeys, moduleKeys, files[idx].data,
                                    {"resources", "client_data"}, resource_pack'[1])
        /\ behavior_pack' # behavior_pack
               => AbsentKeysOmitted(packKeys, headerKeys, moduleKeys, files[idx].data,
                                    {"data", "script"}, behavior_pack'[1])

\* C9 as stated: every key of the schema that is absent from an adopted
\* manifest is absent from the JSON written for the pack loaded from it.
C9_AbsentKeysStayAbsent ==
    [][Adoption({"format_version", "dependencies", "metadata"},
                {"description", "min_engine_version"},
                {"description", "language", "entry"})]_vars

\* C9 amended: every optional key that the loader reads without a default
\* (header min_engine_version, module description, script entry, dependency
\* uuid and module_name, pack dependencies and metadata) and that is absent
\* from an adopted manifest is absent from the JSON written for the pack.
C9_KeysWithoutDefaultStayAbsent ==
    [][Adoption({"dependencies", "metadata"},
                {"min_engine_version"},
                {"description", "entry"})]_vars

\* scan has adopted a manifest that has none of the optional keys, and the
\* header written for it has no min_engine_version
C9_Witness ==
    /\ pc = "loaded"
    /\ files = <<BpScript, RpPlain>>
    /\ resource_pack # << >>
    /\ behavior_pack # << >>
    /\ "min_engine_version" \notin DOMAIN write(resource_pack[1])["header"]
    /\ "entry" \notin DOMAIN write(behavior_pack[1])["modules"][1]


====
